---- MODULE Spec2Model ----
(***************************************************************************)
(* Model of retirement_calculator.models.User: validation of a raw field   *)
(* set (percentage conversion and the two cross-field checks), the derived *)
(* properties (current_age, years_to_retirement,                           *)
(* expected_years_in_retirement) and the three projection operations.      *)
(*                                                                         *)
(* Dates are day ordinals.  The numbers the projections work on are exact  *)
(* rationals (sign, numerator, denominator) over arbitrary-precision       *)
(* naturals, so that powers such as (1 + r) ** 30 can be evaluated; the    *)
(* binary floating-point error of the interpreter is not modelled.         *)
(***************************************************************************)
EXTENDS Integers, Sequences, FiniteSets, TLC

(***************************************************************************)
(* Arbitrary-precision naturals: little-endian sequences of digits in      *)
(* radix 1000, without high-order zeros (zero is the empty sequence).      *)
(* Sums and carries are folded by halving the index range.                 *)
(***************************************************************************)
Lo(x) == x % 1000

Hi(x) == x \div 1000

Digit(m, k) == IF k >= 1 /\ k <= Len(m) THEN m[k] ELSE 0

RECURSIVE MagFromNat(_)
MagFromNat(k) == IF k = 0 THEN <<>> ELSE <<Lo(k)>> \o MagFromNat(Hi(k))

RECURSIVE MagToNat(_)
MagToNat(m) == IF m = <<>> THEN 0 ELSE Head(m) + 1000 * MagToNat(Tail(m))

\* m without its high-order zeros
MagTrim(m) ==
    LET nz == {k \in 1..Len(m) : m[k] # 0}
    IN  IF nz = {} THEN <<>>
        ELSE SubSeq(m, 1, CHOOSE k \in nz : \A j \in nz : j <= k)

\* the digits of columns lo..hi of c with carry added in, and the carry out;
\* a column may hold any integer, also a negative one
RECURSIVE Carry(_, _, _, _)
Carry(c, lo, hi, carry) ==
    IF lo > hi THEN [d |-> <<>>, carry |-> carry]
    ELSE IF lo = hi
    THEN [d |-> <<Lo(c[lo] + carry)>>, carry |-> Hi(c[lo] + carry)]
    ELSE LET mid  == (lo + hi) \div 2
             low  == Carry(c, lo, mid, carry)
             high == Carry(c, mid + 1, hi, low.carry)
         IN  [d |-> low.d \o high.d, carry |-> high.carry]

\* the natural whose columns are c
MagOfColumns(c) ==
    LET r == Carry(c, 1, Len(c), 0)
    IN  MagTrim(r.d \o MagFromNat(r.carry))

MagAdd(a, b) ==
    LET len == IF Len(a) > Len(b) THEN Len(a) ELSE Len(b)
    IN  MagOfColumns([k \in 1..len |-> Digit(a, k) + Digit(b, k)])

\* a - b for a >= b
MagSub(a, b) == MagOfColumns([k \in 1..Len(a) |-> a[k] - Digit(b, k)])

\* -1, 0 or 1 as a < b, a = b or a > b
MagCmp(a, b) ==
    IF Len(a) < Len(b) THEN -1
    ELSE IF Len(a) > Len(b) THEN 1
    ELSE LET diff == {k \in 1..Len(a) : a[k] # b[k]}
             top  == CHOOSE k \in diff : \A j \in diff : j <= k
         IN  IF diff = {} THEN 0
             ELSE IF a[top] < b[top] THEN -1 ELSE 1

\* the sum of a[i] * b[k + 1 - i] for i in lo..hi
RECURSIVE ColumnSum(_, _, _, _, _)
ColumnSum(a, b, k, lo, hi) ==
    IF lo > hi THEN 0
    ELSE IF lo = hi THEN a[lo] * b[k + 1 - lo]
    ELSE LET mid == (lo + hi) \div 2
         IN  ColumnSum(a, b, k, lo, mid) + ColumnSum(a, b, k, mid + 1, hi)

\* column k of a * b: the products a[i] * b[j] with i + j = k + 1
Column(a, b, k) ==
    ColumnSum(a, b, k, IF k > Len(b) THEN k + 1 - Len(b) ELSE 1,
                       IF k < Len(a) THEN k ELSE Len(a))

MagMul(a, b) ==
    IF a = <<>> \/ b = <<>> THEN <<>>
    ELSE MagOfColumns([k \in 1..(Len(a) + Len(b) - 1) |-> Column(a, b, k)])

(***************************************************************************)
(* Exact rationals [s, n, d]: sign s in {-1, 0, 1}, numerator n and        *)
(* denominator d > 0 as naturals.  Fractions are not reduced; equality is  *)
(* decided by RCmp.                                                        *)
(***************************************************************************)
Abs(k) == IF k < 0 THEN -k ELSE k

Sign(k) == IF k < 0 THEN -1 ELSE IF k > 0 THEN 1 ELSE 0

\* the rational a / b for integers a and b > 0
RFrac(a, b) == [s |-> Sign(a), n |-> MagFromNat(Abs(a)), d |-> MagFromNat(b)]

RInt(k) == RFrac(k, 1)

RNeg(x) == [x EXCEPT !.s = -x.s]

RAdd(x, y) ==
    IF x.s = 0 THEN y
    ELSE IF y.s = 0 THEN x
    ELSE LET same == x.d = y.d
             a    == IF same THEN x.n ELSE MagMul(x.n, y.d)
             b    == IF same THEN y.n ELSE MagMul(y.n, x.d)
             d    == IF same THEN x.d ELSE MagMul(x.d, y.d)
             c    == MagCmp(a, b)
         IN  IF x.s = y.s THEN [s |-> x.s, n |-> MagAdd(a, b), d |-> d]
             ELSE IF c = 0 THEN RInt(0)
             ELSE IF c > 0 THEN [s |-> x.s, n |-> MagSub(a, b), d |-> d]
             ELSE [s |-> y.s, n |-> MagSub(b, a), d |-> d]

RSub(x, y) == RAdd(x, RNeg(y))

RMul(x, y) ==
    IF x.s = 0 \/ y.s = 0 THEN RInt(0)
    ELSE [s |-> x.s * y.s, n |-> MagMul(x.n, y.n), d |-> MagMul(x.d, y.d)]

\* 1 / x for x # 0
RInv(x) == [s |-> x.s, n |-> x.d, d |-> x.n]

\* x / y for y # 0
RDiv(x, y) == RMul(x, RInv(y))

\* x ** k for a natural k (x ** 0 is 1, also for x = 0)
RECURSIVE RPowNat(_, _)
RPowNat(x, k) == IF k = 0 THEN RInt(1) ELSE RMul(x, RPowNat(x, k - 1))

\* x ** t raises ZeroDivisionError for x = 0 and a negative exponent
PowRaises(x, t) == x.s = 0 /\ t < 0

\* x ** t for an integer t, where it does not raise
RPow(x, t) == IF t >= 0 THEN RPowNat(x, t) ELSE RInv(RPowNat(x, -t))

\* -1, 0 or 1 as x < y, x = y or x > y
RCmp(x, y) == RSub(x, y).s

REq(x, y) == RCmp(x, y) = 0

\* the largest k in lo..hi with k * d <= n
RECURSIVE FloorSearch(_, _, _, _)
FloorSearch(n, d, lo, hi) ==
    IF lo = hi THEN lo
    ELSE LET mid == (lo + hi + 1) \div 2
         IN  IF MagCmp(MagMul(d, MagFromNat(mid)), n) <= 0
             THEN FloorSearch(n, d, mid, hi)
             ELSE FloorSearch(n, d, lo, mid - 1)

\* the least power of two hi >= lo with hi * d > n
RECURSIVE FloorBound(_, _, _)
FloorBound(n, d, lo) ==
    IF MagCmp(MagMul(d, MagFromNat(lo)), n) > 0 THEN lo
    ELSE FloorBound(n, d, 2 * lo)

\* the quotient of n by d, for d > 0 and a quotient below 2^30
MagQuot(n, d) ==
    LET hi == FloorBound(n, d, 1)
    IN  FloorSearch(n, d, hi \div 2, hi - 1)

\* -1, 0 or 1 as the fraction n / d less its integer part is below, at or
\* above one half
HalfCmp(n, d) ==
    LET rem == MagSub(n, MagMul(d, MagFromNat(MagQuot(n, d))))
    IN  MagCmp(MagAdd(rem, rem), d)

\* x is an integer plus one half
IsHalfway(x) == HalfCmp(x.n, x.d) = 0

\* round(x) of the interpreter: to the nearest integer, a tie to the even one
PyRoundHalfAway(x) ==
    LET q == MagQuot(x.n, x.d)
        h == HalfCmp(x.n, x.d)
    IN  x.s * (IF h < 0 THEN q ELSE q + 1)

PyRound(x) ==
    LET q == MagQuot(x.n, x.d)
        h == HalfCmp(x.n, x.d)
    IN  x.s * (IF h < 0 THEN q
               ELSE IF h > 0 THEN q + 1
               ELSE IF q % 2 = 0 THEN q ELSE q + 1)

(***************************************************************************)
(* The User model.  A raw field set holds the three percentages in written *)
(* notation (integers); a User holds them in numeric form.                 *)
(***************************************************************************)
VARIABLES
    today,         \* date.today(), a day ordinal
    raw,           \* the raw field set last given to the constructor
    validated_on,  \* the day of that construction
    user,          \* the User it built, NoUser after a validation failure
    failure,       \* the ValueError message of the failed check, "" if none
    last           \* the last call on user: operation, arguments and outcome

vars == <<today, raw, validated_on, user, failure, last>>

\* the last day the clock reaches
MaxToday == 1

NoRaw == [none |-> TRUE]

NoUser == [none |-> TRUE]

NoCall ==
    [op |-> "none", g |-> RInt(0), i |-> RInt(0), on |-> 0, ytr |-> 0,
     raised |-> "", unrounded |-> RInt(0), value |-> 0]

\* v / 100
convert_written_percentage_unconverted(v) == RInt(v)

convert_written_percentage_to_numeric_form(v) == RFrac(v, 100)

\* the field validators (mode "before"), applied to the three percentages
ConvertedFields(fields) ==
    [fields EXCEPT
        !.current_savings_rate =
            convert_written_percentage_to_numeric_form(fields.current_savings_rate),
        !.expected_rate_of_return =
            convert_written_percentage_to_numeric_form(fields.expected_rate_of_return),
        !.pre_retirement_income_percent =
            convert_written_percentage_to_numeric_form(fields.pre_retirement_income_percent)]

TruncatedYearsFloor(days) == (4 * days) \div 1461

\* int(x) of days / 365.25: the quotient 4 * days / 1461 truncated toward zero
TruncatedYears(days) ==
    IF days >= 0 THEN (4 * days) \div 1461 ELSE -((4 * (-days)) \div 1461)

current_age(self, day) == TruncatedYears(day - self.date_of_birth)

years_to_retirement(self, day) == self.retirement_age - current_age(self, day)

expected_years_in_retirement(self) == self.life_expectancy - self.retirement_age

check_retirement_age_not_below_current_age(self, day) ==
    IF self.retirement_age < current_age(self, day)
    THEN "Retirement age must be greater than current age"
    ELSE ""

check_retirement_age_is_greater_than_current_age(self, day) ==
    IF self.retirement_age <= current_age(self, day)
    THEN "Retirement age must be greater than current age"
    ELSE ""

check_life_expectancy_greater_than_retirement_age(self) ==
    IF self.life_expectancy <= self.retirement_age
    THEN "Life expectancy must be greater than retirement age"
    ELSE ""

ModelValidatorsSwapped(self, day) ==
    IF check_life_expectancy_greater_than_retirement_age(self) # ""
    THEN check_life_expectancy_greater_than_retirement_age(self)
    ELSE check_retirement_age_is_greater_than_current_age(self, day)

\* the model validators (mode "after") in their order of definition; the
\* first one that raises ends the validation
ModelValidators(self, day) ==
    IF check_retirement_age_is_greater_than_current_age(self, day) # ""
    THEN check_retirement_age_is_greater_than_current_age(self, day)
    ELSE check_life_expectancy_greater_than_retirement_age(self)

(***************************************************************************)
(* The projections.  Each returns [raised, unrounded, value]: the          *)
(* exception raised ("" if none), the argument of round() and its result.  *)
(***************************************************************************)
Raised(e) == [raised |-> e, unrounded |-> RInt(0), value |-> 0]

Returned(x) == [raised |-> "", unrounded |-> x, value |-> PyRound(x)]

OnePlus(x) == RAdd(RInt(1), x)

calculate_required_retirement_income(self, day, annual_salary_increase) ==
    LET r == annual_salary_increase
        t == years_to_retirement(self, day)
        P == RInt(self.household_income)
    IN  IF PowRaises(OnePlus(r), t) THEN Raised("ZeroDivisionError")
        ELSE LET future_salary == RMul(P, RPow(OnePlus(r), t))
             IN  Returned(RMul(future_salary, self.pre_retirement_income_percent))

calculate_expected_savings_at_retirement(self, day, annual_salary_increase) ==
    LET t   == years_to_retirement(self, day)
        r   == self.expected_rate_of_return
        g   == annual_salary_increase
        P   == RInt(self.current_retirement_savings)
        PMT == RMul(RInt(self.household_income), self.current_savings_rate)
    IN  IF PowRaises(OnePlus(r), t) \/ PowRaises(OnePlus(g), t)
        THEN Raised("ZeroDivisionError")
        ELSE IF RSub(r, g).s = 0 THEN Raised("ZeroDivisionError")
        ELSE LET compounded_initial_lump_sum == RMul(P, RPow(OnePlus(r), t))
                 future_value_growth_annuity ==
                     RMul(PMT, RDiv(RSub(RPow(OnePlus(r), t), RPow(OnePlus(g), t)),
                                    RSub(r, g)))
             IN  Returned(RAdd(compounded_initial_lump_sum,
                               future_value_growth_annuity))

required_retirement_savings_of_unrounded_income(self, day, inflation_rate, annual_salary_increase) ==
    LET i      == inflation_rate
        r      == self.expected_rate_of_return
        t      == expected_years_in_retirement(self)
        income == calculate_required_retirement_income(self, day, annual_salary_increase)
        A      == income.unrounded
    IN  IF income.raised # "" THEN Raised(income.raised)
        ELSE IF PowRaises(OnePlus(RSub(r, i)), -t) THEN Raised("ZeroDivisionError")
        ELSE IF RSub(r, i).s = 0 THEN Raised("ZeroDivisionError")
        ELSE Returned(RMul(A, RDiv(RSub(RInt(1), RPow(OnePlus(RSub(r, i)), -t)),
                                   RSub(r, i))))

calculate_required_retirement_savings(self, day, inflation_rate, annual_salary_increase) ==
    LET i      == inflation_rate
        r      == self.expected_rate_of_return
        t      == expected_years_in_retirement(self)
        income == calculate_required_retirement_income(self, day, annual_salary_increase)
        A      == RInt(income.value)
    IN  IF income.raised # "" THEN Raised(income.raised)
        ELSE IF PowRaises(OnePlus(RSub(r, i)), -t) THEN Raised("ZeroDivisionError")
        ELSE IF RSub(r, i).s = 0 THEN Raised("ZeroDivisionError")
        ELSE Returned(RMul(A, RDiv(RSub(RInt(1), RPow(OnePlus(RSub(r, i)), -t)),
                                   RSub(r, i))))

(***************************************************************************)
(* Inputs.  Dates of birth are day ordinals; the clock starts at day 0.    *)
(***************************************************************************)
FieldSet(dob, le, ra, savings, income, csr, err, pct) ==
    [id |-> 1,
     address |-> "26 Piazza di Spagna",
     full_name |-> "John Keats",
     date_of_birth |-> dob,
     life_expectancy |-> le,
     retirement_age |-> ra,
     current_retirement_savings |-> savings,
     household_income |-> income,
     current_savings_rate |-> csr,
     expected_rate_of_return |-> err,
     pre_retirement_income_percent |-> pct]

\* the user of the calculation tests, born 30 * 365 + 30 days before day 0
CalculationData == FieldSet(-(30 * 365 + 30), 90, 60, 10000, 60000, 10, 10, 67)

RawFieldSets ==
    { FieldSet(dob, le, ra, savings, income, 50, err, pct) :
        dob \in {-731, -365, 1, 400}, le \in {1, 2, 4}, ra \in {0, 1, 2, 3},
        savings \in {-1, 100}, income \in {-1, 1, 3},
        err \in {0, 100}, pct \in {50, 100} }
    \cup {CalculationData}

\* the data of the age test for a person born `days` days before `day`
AgeTestData(days, day) == FieldSet(day - days, 122, 121, 10000, 60000, 10, 10, 67)

\* 365 * a + 30 days for the tested ages, and day counts around a birthday
\* or before the birth
AgeTestDays ==
    { 365 * a + 30 : a \in 0..120 }
    \cup {-731, -400, -366, -365, -1, 0, 364, 365, 366, 730, 731}

AnnualSalaryIncreases == {RInt(0), RFrac(2, 100)}

InflationRates == {RInt(0), RFrac(3, 100)}

(***************************************************************************)
(* Actions.                                                                *)
(***************************************************************************)
Init ==
    /\ today = 0
    /\ raw = NoRaw
    /\ validated_on = 0
    /\ user = NoUser
    /\ failure = ""
    /\ last = NoCall

\* User(**fields), once in a run
Construct(fields) ==
    LET self  == ConvertedFields(fields)
        error == ModelValidators(self, today)
    IN  /\ raw = NoRaw
        /\ raw' = fields
        /\ validated_on' = today
        /\ failure' = error
        /\ user' = IF error = "" THEN self ELSE NoUser
        /\ UNCHANGED <<today, last>>

Validate == \E fields \in RawFieldSets : Construct(fields)

ValidateAgeTestData == \E days \in AgeTestDays : Construct(AgeTestData(days, today))

\* a call changes nothing a later call reads: a run records one call
Call(op, g, i, result) ==
    /\ last = NoCall
    /\ last' = [op |-> op, g |-> g, i |-> i, on |-> today,
                ytr |-> years_to_retirement(user, today),
                raised |-> result.raised, unrounded |-> result.unrounded,
                value |-> result.value]
    /\ UNCHANGED <<today, raw, validated_on, user, failure>>

ReadCurrentAge ==
    /\ user # NoUser
    /\ Call("current_age", RInt(0), RInt(0),
            [raised |-> "", unrounded |-> RInt(0), value |-> current_age(user, today)])

CalculateRequiredRetirementIncome ==
    /\ user # NoUser
    /\ \E g \in AnnualSalaryIncreases :
           Call("calculate_required_retirement_income", g, RInt(0),
                calculate_required_retirement_income(user, today, g))

CalculateExpectedSavingsAtRetirement ==
    /\ user # NoUser
    /\ \E g \in AnnualSalaryIncreases :
           Call("calculate_expected_savings_at_retirement", g, RInt(0),
                calculate_expected_savings_at_retirement(user, today, g))

CalculateRequiredRetirementSavings ==
    /\ user # NoUser
    /\ \E g \in AnnualSalaryIncreases, i \in InflationRates :
           Call("calculate_required_retirement_savings", g, i,
                calculate_required_retirement_savings(user, today, i, g))

\* midnight passes
Tick ==
    /\ today < MaxToday
    /\ today' = today + 1
    /\ UNCHANGED <<raw, validated_on, user, failure, last>>

Next ==
    \/ Validate
    \/ ReadCurrentAge
    \/ CalculateRequiredRetirementIncome
    \/ CalculateExpectedSavingsAtRetirement
    \/ CalculateRequiredRetirementSavings
    \/ Tick

Spec == Init /\ [][Next]_vars

NextAge ==
    \/ ValidateAgeTestData
    \/ ReadCurrentAge
    \/ Tick

SpecAge == Init /\ [][NextAge]_vars

(***************************************************************************)
(* Properties.                                                             *)
(***************************************************************************)
Constructed == raw # NoRaw

AgeAtValidation == current_age(raw, validated_on)

EngineOps ==
    {"calculate_required_retirement_income",
     "calculate_expected_savings_at_retirement",
     "calculate_required_retirement_savings"}

RAbs(x) == IF x.s < 0 THEN RNeg(x) ELSE x

\* the field set meets the base-field constraints: positive ages,
\* non-negative amounts, a date of birth not after the day of validation
BaseFieldsInRange ==
    /\ Constructed
    /\ raw.life_expectancy > 0
    /\ raw.retirement_age > 0
    /\ raw.current_retirement_savings >= 0
    /\ raw.household_income >= 0
    /\ raw.date_of_birth <= validated_on

\* the argument of round() less the integer returned
RoundingError == RSub(last.unrounded, RInt(last.value))

\* C1: construction succeeds only if retirement_age > current_age (at the
\* day of validation) and life_expectancy > retirement_age; a field set with
\* retirement_age <= current_age or life_expectancy <= retirement_age,
\* equality included, yields a validation failure and no User.
C1_CrossFieldChecks ==
    Constructed =>
        /\ user # NoUser =>
               /\ raw.retirement_age > AgeAtValidation
               /\ raw.life_expectancy > raw.retirement_age
        /\ (\/ raw.retirement_age <= AgeAtValidation
            \/ raw.life_expectancy <= raw.retirement_age)
           => user = NoUser /\ failure # ""

C1_Witness ==
    /\ Constructed
    /\ raw.retirement_age = AgeAtValidation
    /\ raw.life_expectancy > raw.retirement_age
    /\ user = NoUser
    /\ failure # ""

\* the limiting form P0 * (1+r)^t + PMT * t * (1+r)^(t-1) of the expected
\* savings for r = g
ExpectedSavingsLimit(self, t) ==
    LET r   == self.expected_rate_of_return
        P   == RInt(self.current_retirement_savings)
        PMT == RMul(RInt(self.household_income), self.current_savings_rate)
    IN  RAdd(RMul(P, RPow(OnePlus(r), t)),
             RMul(RMul(PMT, RInt(t)), RPow(OnePlus(r), t - 1)))

\* C2: for a profile within the base-field constraints, when
\* expected_rate_of_return equals annual_salary_increase,
\* calculate_expected_savings_at_retirement raises nothing and returns
\* round(P0 * (1+r)^t + PMT * t * (1+r)^(t-1)), t = years_to_retirement.
C2_EqualRatesUseLimit ==
    (/\ BaseFieldsInRange
     /\ last.op = "calculate_expected_savings_at_retirement"
     /\ REq(user.expected_rate_of_return, last.g))
    => /\ last.raised = ""
       /\ last.value = PyRound(ExpectedSavingsLimit(user, last.ytr))

\* C3: for a profile within the base-field constraints, when
\* expected_rate_of_return equals inflation_rate,
\* calculate_required_retirement_savings raises nothing and returns
\* round(A * t), A the required retirement income and
\* t = expected_years_in_retirement.
C3_ZeroRealRateUsesLimit ==
    (/\ BaseFieldsInRange
     /\ last.op = "calculate_required_retirement_savings"
     /\ REq(user.expected_rate_of_return, last.i))
    => /\ last.raised = ""
       /\ last.value =
              calculate_required_retirement_income(user, last.on, last.g).value
              * expected_years_in_retirement(user)

\* C4: whenever an engine operation is invoked on a validated User (here
\* one within the base-field constraints), on the day of validation or
\* later, the years_to_retirement it reads is >= 1.
C4_HorizonAtLeastOne ==
    (BaseFieldsInRange /\ last.op \in EngineOps) => last.ytr >= 1

\* C5: a validated User stores each of current_savings_rate,
\* expected_rate_of_return and pre_retirement_income_percent as exactly the
\* raw input / 100, and every other field with its raw value.
C5_PercentagesConverted ==
    user # NoUser =>
        /\ REq(RMul(user.current_savings_rate, RInt(100)),
               RInt(raw.current_savings_rate))
        /\ REq(RMul(user.expected_rate_of_return, RInt(100)),
               RInt(raw.expected_rate_of_return))
        /\ REq(RMul(user.pre_retirement_income_percent, RInt(100)),
               RInt(raw.pre_retirement_income_percent))
        /\ DOMAIN user = DOMAIN raw
        /\ \A f \in {"id", "address", "full_name", "date_of_birth",
                     "life_expectancy", "retirement_age",
                     "current_retirement_savings", "household_income"} :
               user[f] = raw[f]

C5_Witness ==
    /\ user # NoUser
    /\ raw.current_savings_rate = 50
    /\ raw.expected_rate_of_return = 100
    /\ raw.pre_retirement_income_percent = 50
    /\ raw.household_income = 3
    /\ user.household_income = 3
    /\ REq(user.current_savings_rate, RFrac(1, 2))

\* C6 as stated: each engine operation rounds to the nearest integer, a tie
\* away from zero: an unrounded value n + 1/2 with n >= 0 returns n + 1
\* (stated for profiles within the base-field constraints).
C6_TiesAwayFromZero ==
    (/\ BaseFieldsInRange
     /\ last.op \in EngineOps
     /\ last.raised = ""
     /\ last.unrounded.s >= 0
     /\ REq(RAbs(RoundingError), RFrac(1, 2)))
    => RoundingError.s < 0

\* C6 as amended: each engine operation rounds to the nearest integer, a tie
\* to the even neighbour: an unrounded value n + 1/2 with n >= 0 returns n
\* if n is even and n + 1 if n is odd.
C6_TiesToEven ==
    (last.op \in EngineOps /\ last.raised = "") =>
        /\ RCmp(RAbs(RoundingError), RFrac(1, 2)) <= 0
        /\ REq(RAbs(RoundingError), RFrac(1, 2)) => last.value % 2 = 0

C6_Witness ==
    /\ last.op = "calculate_required_retirement_income"
    /\ last.raised = ""
    /\ REq(last.unrounded, RFrac(1, 2))
    /\ last.value = 0

\* C7: a field set in which life_expectancy or retirement_age is not
\* positive, or current_retirement_savings or household_income is negative,
\* or date_of_birth is later than the day of validation, yields a validation
\* failure and no User.
C7_BaseFieldConstraints ==
    (/\ Constructed
     /\ \/ raw.life_expectancy <= 0
        \/ raw.retirement_age <= 0
        \/ raw.current_retirement_savings < 0
        \/ raw.household_income < 0
        \/ raw.date_of_birth > validated_on)
    => user = NoUser /\ failure # ""

BothChecksViolated ==
    /\ Constructed
    /\ raw.retirement_age <= AgeAtValidation
    /\ raw.life_expectancy <= raw.retirement_age

\* C8 as stated: a field set violating both cross-field checks fails with
\* the reason "retirement age must exceed current age"; the reason "life
\* expectancy must exceed retirement age" is reported only when the
\* retirement-age check passed.
C8_OrderWithSpecReasons ==
    /\ BothChecksViolated => failure = "retirement age must exceed current age"
    /\ (Constructed /\ failure = "life expectancy must exceed retirement age")
       => raw.retirement_age > AgeAtValidation

\* C8 as amended: a field set violating both cross-field checks fails with
\* the message "Retirement age must be greater than current age"; the
\* message "Life expectancy must be greater than retirement age" is reported
\* only when the retirement-age check passed.
C8_OrderWithCodeMessages ==
    /\ BothChecksViolated
       => failure = "Retirement age must be greater than current age"
    /\ (Constructed
        /\ failure = "Life expectancy must be greater than retirement age")
       => raw.retirement_age > AgeAtValidation

C8_Witness ==
    /\ BothChecksViolated
    /\ user = NoUser
    /\ failure = "Retirement age must be greater than current age"

\* the fixed scenario: the calculation data at current age 30
InScenario ==
    /\ user # NoUser
    /\ raw = CalculationData
    /\ current_age(user, last.on) = 30
    /\ last.g = RFrac(2, 100)

\* C9: in the fixed scenario (annual_salary_increase 0.02, inflation_rate
\* 0.03) the required retirement income is 72817, the expected savings at
\* retirement are 1347347 and the required retirement savings, computed from
\* the rounded income, are 903589.
C9_ScenarioValues ==
    InScenario =>
        /\ last.op = "calculate_required_retirement_income"
           => last.raised = "" /\ last.value = 72817
        /\ last.op = "calculate_expected_savings_at_retirement"
           => last.raised = "" /\ last.value = 1347347
        /\ (last.op = "calculate_required_retirement_savings"
            /\ last.i = RFrac(3, 100))
           => last.raised = "" /\ last.value = 903589

C9_Witness ==
    /\ InScenario
    /\ last.op = "calculate_required_retirement_savings"
    /\ last.i = RFrac(3, 100)
    /\ last.value = 903589

DaysSinceBirth == last.on - user.date_of_birth

====
